---- MODULE Spec2Model ----
(***************************************************************************)
(* Investment Performance Simulator (src/app.py): the projection engine    *)
(* (calculate_future_value, generate_year_by_year_data,                    *)
(* calculate_portfolio_returns) and the Dash callbacks that drive it.      *)
(*                                                                         *)
(* Numbers are exact rationals.  The values the engine produces have       *)
(* numerators and denominators far beyond 32 bits (twelve multiplications  *)
(* by 1 + rate/12 per year), so a rational is a sign and two naturals      *)
(* held as little-endian sequences of limbs in base Base.                  *)
(***************************************************************************)
EXTENDS Integers, Sequences, FiniteSets, TLC

\* ------------------------------------------------------------------------
\* Natural numbers of arbitrary size: <<>> is 0, no high zero limb.  The
\* operations work on whole sequences of limbs rather than limb by limb, to
\* keep the depth of evaluation small.
\* ------------------------------------------------------------------------
Base == 1000

RECURSIVE NatToBig(_)
NatToBig(n) == IF n = 0 THEN <<>> ELSE <<n % Base>> \o NatToBig(n \div Base)

Limb(a, i) == IF i >= 1 /\ i <= Len(a) THEN a[i] ELSE 0

MaxOf(S) == CHOOSE m \in S : \A j \in S : j <= m
MinInt(i, j) == IF i < j THEN i ELSE j
MaxInt(i, j) == IF i > j THEN i ELSE j

BTrim(a) ==
    LET nz == {i \in 1 .. Len(a) : a[i] # 0}
    IN  IF nz = {} THEN <<>> ELSE SubSeq(a, 1, MaxOf(nz))

\* one pass of carries (or borrows) over limbs that may lie outside 0..Base-1
BCarryPass(c) ==
    [i \in 1 .. Len(c) + 1 |->
        (Limb(c, i) % Base) + (Limb(c, i - 1) \div Base)]
        \o <<>>

RECURSIVE BNormalize(_)
BNormalize(c) ==
    IF \A i \in 1 .. Len(c) : c[i] >= 0 /\ c[i] < Base
    THEN BTrim(c)
    ELSE CHOOSE r \in {BNormalize(p) : p \in {BCarryPass(c)}} : TRUE

BAdd(a, b) ==
    BNormalize([i \in 1 .. MaxInt(Len(a), Len(b)) |->
                    Limb(a, i) + Limb(b, i)] \o <<>>)

\* a - b for a >= b
BSub(a, b) ==
    BNormalize([i \in 1 .. Len(a) |-> a[i] - Limb(b, i)] \o <<>>)

\* -1, 0, 1 as a < b, a = b, a > b
BCmp(a, b) ==
    IF Len(a) < Len(b) THEN -1
    ELSE IF Len(a) > Len(b) THEN 1
    ELSE LET diff == {i \in 1 .. Len(a) : a[i] # b[i]}
         IN  IF diff = {} THEN 0
             ELSE IF a[MaxOf(diff)] < b[MaxOf(diff)] THEN -1 ELSE 1

\* the sum of a[i] * b[k + 1 - i] for i in lo..hi
RECURSIVE ColumnSum(_, _, _, _, _)
ColumnSum(a, b, k, lo, hi) ==
    IF lo > hi THEN 0
    ELSE IF lo = hi THEN a[lo] * b[k + 1 - lo]
    ELSE ColumnSum(a, b, k, lo, (lo + hi) \div 2)
            + ColumnSum(a, b, k, (lo + hi) \div 2 + 1, hi)

BMul(a, b) ==
    IF a = <<>> \/ b = <<>> THEN <<>>
    ELSE BNormalize(
            [k \in 1 .. Len(a) + Len(b) - 1 |->
                ColumnSum(a, b, k, MaxInt(1, k + 1 - Len(b)),
                          MinInt(k, Len(a)))] \o <<>>)

\* ------------------------------------------------------------------------
\* Exact rationals: [neg, n, d] is (-1)^neg * n / d, d > 0; zero is never
\* negative.  Large fractions are not reduced; REq compares values.
\* ------------------------------------------------------------------------
RECURSIVE GCD(_, _)
GCD(a, b) == IF b = 0 THEN a ELSE GCD(b, a % b)

Abs(i) == IF i < 0 THEN -i ELSE i

\* the machine integer of at most three limbs
BigToNat(a) == Limb(a, 1) + Base * (Limb(a, 2) + Base * Limb(a, 3))

\* small fractions are kept in lowest terms, large ones as computed
Rat(neg, n, d) ==
    IF Len(n) <= 3 /\ Len(d) <= 3
    THEN LET g == GCD(BigToNat(n), BigToNat(d))
         IN  [neg |-> neg /\ n # <<>>,
              n |-> NatToBig(BigToNat(n) \div g),
              d |-> NatToBig(BigToNat(d) \div g)]
    ELSE [neg |-> neg /\ n # <<>>, n |-> n, d |-> d]

\* the rational p / q of two machine integers, q > 0, in lowest terms
Frac(p, q) ==
    LET g == GCD(Abs(p), q)
    IN  [neg |-> p < 0, n |-> NatToBig(Abs(p) \div g), d |-> NatToBig(q \div g)]

R(i) == Frac(i, 1)

RIsZero(a) == a.n = <<>>
RIsNeg(a)  == a.neg
RIsPos(a)  == ~a.neg /\ a.n # <<>>
RNeg(a)    == Rat(~a.neg, a.n, a.d)

RMul(a, b) ==
    Rat(a.neg # b.neg, BMul(a.n, b.n), BMul(a.d, b.d))

RAdd(a, b) ==
    LET same == a.d = b.d
        x == IF same THEN a.n ELSE BMul(a.n, b.d)
        y == IF same THEN b.n ELSE BMul(b.n, a.d)
        d == IF same THEN a.d ELSE BMul(a.d, b.d)
    IN  IF a.neg = b.neg THEN Rat(a.neg, BAdd(x, y), d)
        ELSE IF BCmp(x, y) >= 0 THEN Rat(a.neg, BSub(x, y), d)
        ELSE Rat(b.neg, BSub(y, x), d)

RSub(a, b) == RAdd(a, RNeg(b))

\* a / b for b # 0
RDiv(a, b) == Rat(a.neg # b.neg, BMul(a.n, b.d), BMul(a.d, b.n))

REq(a, b) == RIsZero(RSub(a, b))
RLt(a, b) == RIsNeg(RSub(a, b))
RLe(a, b) == ~RIsPos(RSub(a, b))
RGt(a, b) == RIsPos(RSub(a, b))

\* a ** k for a natural k.  Here and in the loops below a value that the
\* next step uses is bound by a one-element set, so that it is computed
\* once, before the step, as in the program.
RECURSIVE RPow(_, _)
RPow(a, k) ==
    IF k = 0 THEN R(1)
    ELSE CHOOSE r \in
            {IF k % 2 = 1 THEN RMul(a, RMul(h, h)) ELSE RMul(h, h) :
                h \in {RPow(a, k \div 2)}} : TRUE

\* Python's a ** k for an integer k and a # 0 when k < 0
PyPow(a, k) == IF k >= 0 THEN RPow(a, k) ELSE RDiv(R(1), RPow(a, -k))

\* ------------------------------------------------------------------------
\* Python floats where the program converts them to integers.  A double is
\* [neg, m, e], the number (-1)^neg * m * 2**e with m a natural of at most
\* MantissaBits bits held in limbs; results are rounded to nearest, ties to
\* even.  The values here are far from the subnormal and the overflow range.
\* ------------------------------------------------------------------------
MantissaBits == 53

\* 2**k for k = 0, ..., 2 * MantissaBits
PowersOfTwo == [k \in 0 .. 2 * MantissaBits |-> RPow(R(2), k)]

\* the bits a division by a machine integer handles in one pass
ChunkBits == 10
TwoTo(k) == BigToNat(PowersOfTwo[k].n)

\* quotient and remainder of a natural a in limbs by a machine integer d,
\* 1 <= d <= 2**(2 * ChunkBits), from the highest limb down
RECURSIVE ShortDivLoop(_, _, _, _, _)
ShortDivLoop(a, d, i, rem, quot) ==
    IF i = 0 THEN [quot |-> BTrim(quot), rem |-> rem]
    ELSE ShortDivLoop(a, d, i - 1, (rem * Base + a[i]) % d,
                      <<(rem * Base + a[i]) \div d>> \o quot)

ShortDiv(a, d) == ShortDivLoop(a, d, Len(a), 0, <<>>)

IsOdd(a) == ShortDiv(a, 2).rem = 1

\* a \div 2**bits
RECURSIVE ShiftRight(_, _)
ShiftRight(a, bits) ==
    IF bits = 0 THEN a
    ELSE IF bits > ChunkBits
    THEN ShiftRight(ShortDiv(a, TwoTo(ChunkBits)).quot, bits - ChunkBits)
    ELSE ShortDiv(a, TwoTo(bits)).quot

\* the number of bits of a: the least k with a < 2**k
BitLength(a) ==
    CHOOSE k \in 0 .. 2 * MantissaBits :
        /\ BCmp(a, PowersOfTwo[k].n) < 0
        /\ k > 0 => BCmp(a, PowersOfTwo[k - 1].n) >= 0

\* floor + 1 or floor as the rest (twice the rest against the divisor) and
\* the parity of floor tell
RoundUpFrom(floor, twice_rest, divisor) ==
    IF BCmp(twice_rest, divisor) > 0
          \/ (BCmp(twice_rest, divisor) = 0 /\ IsOdd(floor))
    THEN BAdd(floor, <<1>>) ELSE floor

\* a / d to the nearest natural, for a machine integer d
RoundDiv(a, d) ==
    CHOOSE r \in
        {RoundUpFrom(qr.quot, NatToBig(2 * qr.rem), NatToBig(d)) :
            qr \in {ShortDiv(a, d)}} : TRUE

\* a / 2**bits to the nearest natural
RoundShift(a, bits) ==
    IF bits <= 0 THEN a
    ELSE CHOOSE r \in
            {RoundUpFrom(floor,
                         BMul(BSub(a, BMul(floor, PowersOfTwo[bits].n)),
                              <<2>>),
                         PowersOfTwo[bits].n) :
                floor \in {ShiftRight(a, bits)}} : TRUE

\* the k with 2**k <= q < 2**(k + 1), for q > 0, searched from k
RECURSIVE Exponent(_, _)
Exponent(q, k) ==
    IF RLt(q, PyPow(R(2), k)) THEN Exponent(q, k - 1)
    ELSE IF RLt(q, PyPow(R(2), k + 1)) THEN k
    ELSE Exponent(q, k + 1)

\* the double nearest to n / d for 0 < n / d < 2**MantissaBits and a
\* denominator that is a machine integer
FloatOfPositive(q, exponent) ==
    [neg |-> FALSE,
     m |-> RoundDiv(BMul(q.n, PowersOfTwo[MantissaBits - 1 - exponent].n),
                    BigToNat(q.d)),
     e |-> exponent - (MantissaBits - 1)]

\* float(q): the double a decimal literal or a small fraction denotes
Float(q) ==
    IF RIsZero(q) THEN [neg |-> FALSE, m |-> <<>>, e |-> 0]
    ELSE IF RIsNeg(q)
    THEN [FloatOfPositive(RNeg(q), Exponent(RNeg(q), 0)) EXCEPT !.neg = TRUE]
    ELSE FloatOfPositive(q, Exponent(q, 0))

\* the product as it is, rounded to MantissaBits bits
FloatRounded(neg, product, e) ==
    [neg |-> neg,
     m |-> RoundShift(product, BitLength(product) - MantissaBits),
     e |-> e + MaxInt(0, BitLength(product) - MantissaBits)]

\* x * c for a double x and a machine integer c >= 0
FloatTimesInt(x, c) ==
    CHOOSE r \in
        {FloatRounded(x.neg /\ product # <<>>, product, x.e) :
            product \in {BMul(x.m, NatToBig(c))}} : TRUE

\* int(x): the machine integer the double truncates to, toward zero
PyInt(x) ==
    LET magnitude == IF x.e >= 0 THEN BMul(x.m, PowersOfTwo[x.e].n)
                     ELSE ShiftRight(x.m, -x.e)
    IN  IF x.neg THEN -BigToNat(magnitude) ELSE BigToNat(magnitude)

\* ------------------------------------------------------------------------
\* Square roots, exactly: coef * sqrt(radicand) for a rational coef and a
\* rational radicand >= 0.  np.sqrt of a rational, its multiples and the
\* quotients by it are of this form, and so are the rationals themselves
\* (radicand 1); they are compared with a rational through their squares.
\* ------------------------------------------------------------------------
Surd(coef, radicand) == [coef |-> coef, radicand |-> radicand]
Sqrt(radicand) == Surd(R(1), radicand)
Exact(q) == Surd(q, R(1))

RSign(q) == IF RIsZero(q) THEN 0 ELSE IF RIsNeg(q) THEN -1 ELSE 1
RCmp(a, b) == RSign(RSub(a, b))

SurdSign(s) ==
    IF RIsZero(s.coef) \/ RIsZero(s.radicand) THEN 0 ELSE RSign(s.coef)
SurdSquare(s) == RMul(RMul(s.coef, s.coef), s.radicand)

\* -1, 0 or 1 as the surd is below, at or above the rational
SurdCmp(s, q) ==
    IF SurdSign(s) # RSign(q)
    THEN IF SurdSign(s) < RSign(q) THEN -1 ELSE 1
    ELSE SurdSign(s) * RCmp(SurdSquare(s), RMul(q, q))
SurdGt(s, q) == SurdCmp(s, q) = 1
SurdLt(s, q) == SurdCmp(s, q) = -1
SurdIsZero(s) == SurdSign(s) = 0

\* s * q and q / s (s not zero): q / (c*sqrt(v)) = (q / (c*v)) * sqrt(v)
SurdTimes(s, q) == Surd(RMul(s.coef, q), s.radicand)
RDivSurd(q, s) == Surd(RDiv(q, RMul(s.coef, s.radicand)), s.radicand)

\* the two surds are the same number
SurdEq(s, t) ==
    /\ SurdSign(s) = SurdSign(t)
    /\ REq(SurdSquare(s), SurdSquare(t))

\* ------------------------------------------------------------------------
\* The projection engine (src/app.py, lines 100-169)
\* ------------------------------------------------------------------------
MonthsPerYear == 12

\* calculate_future_value: the closed form, with the contribution term
\* chosen by the test r > 0
calculate_future_value(principal, monthly_payment, annual_rate, years, compound_frequency) ==
    LET r == IF compound_frequency = "monthly"
             THEN RDiv(annual_rate, R(MonthsPerYear)) ELSE annual_rate
        n == IF compound_frequency = "monthly"
             THEN years * MonthsPerYear ELSE years
        fv_principal == RMul(principal, PyPow(RAdd(R(1), r), n))
        fv_payments ==
            IF RIsPos(r)
            THEN RMul(monthly_payment,
                      RDiv(RSub(PyPow(RAdd(R(1), r), n), R(1)), r))
            ELSE RMul(monthly_payment, R(n))
    IN  RAdd(fv_principal, fv_payments)

\* the inner loop: `month` more steps of
\* current_balance = current_balance * (1 + annual_rate/12) + monthly_payment
RECURSIVE MonthLoop(_, _, _, _)
MonthLoop(current_balance, monthly_payment, annual_rate, month) ==
    IF month = 0 THEN current_balance
    ELSE CHOOSE result \in
            {MonthLoop(balance, monthly_payment, annual_rate, month - 1) :
                balance \in
                    {RAdd(RMul(current_balance,
                               RAdd(R(1),
                                    RDiv(annual_rate, R(MonthsPerYear)))),
                          monthly_payment)}} : TRUE

\* the dictionary appended for one year; current_balance and total_invested
\* are the values after the year's twelve steps
YearRecordMissingInvestment(year, current_balance, yearly_return, yearly_investment, total_invested) ==
    [Year |-> year,
     BeginningBalance |-> RSub(current_balance, yearly_return),
     AnnualInvestment |-> yearly_investment,
     InterestEarned |-> yearly_return,
     EndingBalance |-> current_balance,
     TotalInvested |-> total_invested,
     TotalInterest |-> RSub(current_balance, total_invested)]

YearRecord(year, current_balance, yearly_return, yearly_investment, total_invested) ==
    [Year |-> year,
     BeginningBalance |->
         RSub(RSub(current_balance, yearly_return), yearly_investment),
     AnnualInvestment |-> yearly_investment,
     InterestEarned |-> yearly_return,
     EndingBalance |-> current_balance,
     TotalInvested |-> total_invested,
     TotalInterest |-> RSub(current_balance, total_invested)]

\* the outer loop from `year` on; range(1, years + 1) is empty for years < 1
RECURSIVE YearLoop(_, _, _, _, _, _, _)
YearLoop(data, current_balance, total_invested, year, monthly_payment, annual_rate, years) ==
    IF year > years THEN data
    ELSE LET yearly_return == RMul(current_balance, annual_rate)
             yearly_investment == RMul(monthly_payment, R(MonthsPerYear))
         IN  CHOOSE result \in
                {YearLoop(Append(data,
                                 YearRecord(year, balance, yearly_return,
                                            yearly_investment, invested)),
                          balance, invested, year + 1,
                          monthly_payment, annual_rate, years) :
                    balance \in {MonthLoop(current_balance, monthly_payment,
                                           annual_rate, MonthsPerYear)},
                    invested \in {RAdd(total_invested, yearly_investment)}} :
                TRUE

\* generate_year_by_year_data if the loop were over range(1, years)
generate_year_by_year_data_short(principal, monthly_payment, annual_rate, years) ==
    YearLoop(<<>>, principal, principal, 1, monthly_payment, annual_rate,
             years - 1)

\* generate_year_by_year_data: the rows of the returned DataFrame
generate_year_by_year_data(principal, monthly_payment, annual_rate, years) ==
    YearLoop(<<>>, principal, principal, 1, monthly_payment, annual_rate,
             years)

\* ------------------------------------------------------------------------
\* Reference tables (src/app.py, lines 42-88)
\* ------------------------------------------------------------------------
Assets == {"stocks_kr", "stocks_global", "reits", "bonds", "deposits",
           "crypto"}

\* the order of the keys of the allocation dictionary (lines 781-788)
AssetOrder == <<"stocks_kr", "stocks_global", "reits", "bonds", "deposits",
                "crypto">>

InitialRiskProfiles ==
    [conservative |->
        [stocks_kr |-> Frac(20, 100), stocks_global |-> Frac(5, 100),
         reits |-> Frac(10, 100), bonds |-> Frac(50, 100),
         deposits |-> Frac(15, 100), crypto |-> Frac(0, 100)],
     moderate |->
        [stocks_kr |-> Frac(35, 100), stocks_global |-> Frac(15, 100),
         reits |-> Frac(15, 100), bonds |-> Frac(25, 100),
         deposits |-> Frac(10, 100), crypto |-> Frac(0, 100)],
     aggressive |->
        [stocks_kr |-> Frac(40, 100), stocks_global |-> Frac(25, 100),
         reits |-> Frac(10, 100), bonds |-> Frac(15, 100),
         deposits |-> Frac(5, 100), crypto |-> Frac(5, 100)]]

InitialReturns ==
    [single_asset |-> Frac(6, 100), stocks_kr |-> Frac(8, 100),
     stocks_global |-> Frac(10, 100), reits |-> Frac(5, 100),
     bonds |-> Frac(35, 1000), deposits |-> Frac(3, 100),
     crypto |-> Frac(15, 100)]

InitialVolatility ==
    [stocks_kr |-> Frac(20, 100), stocks_global |-> Frac(18, 100),
     reits |-> Frac(15, 100), bonds |-> Frac(5, 100),
     deposits |-> Frac(1, 100), crypto |-> Frac(70, 100)]

\* ------------------------------------------------------------------------
\* The portfolio aggregator (src/app.py, lines 149-169)
\* ------------------------------------------------------------------------
\* the rows one asset contributes: its ledger, tagged with asset and weight
AssetRowsSwapped(allocations, returns, principal, monthly_payment, years, asset) ==
    LET allocation == allocations[asset]
        asset_principal == RMul(principal, allocation)
        asset_monthly == RMul(monthly_payment, allocation)
        asset_return == returns[asset]
        yearly_data == generate_year_by_year_data(
                           asset_monthly, asset_principal, asset_return,
                           years)
    IN  [i \in 1 .. Len(yearly_data) |->
            [Year |-> yearly_data[i].Year,
             BeginningBalance |-> yearly_data[i].BeginningBalance,
             AnnualInvestment |-> yearly_data[i].AnnualInvestment,
             InterestEarned |-> yearly_data[i].InterestEarned,
             EndingBalance |-> yearly_data[i].EndingBalance,
             TotalInvested |-> yearly_data[i].TotalInvested,
             TotalInterest |-> yearly_data[i].TotalInterest,
             Asset |-> asset,
             Allocation |-> allocation]] \o <<>>

AssetRows(allocations, returns, principal, monthly_payment, years, asset) ==
    LET allocation == allocations[asset]
        asset_principal == RMul(principal, allocation)
        asset_monthly == RMul(monthly_payment, allocation)
        asset_return == returns[asset]
        \* fv of line 160 is computed and not used
        yearly_data == generate_year_by_year_data(
                           asset_principal, asset_monthly, asset_return,
                           years)
    IN  [i \in 1 .. Len(yearly_data) |->
            [Year |-> yearly_data[i].Year,
             BeginningBalance |-> yearly_data[i].BeginningBalance,
             AnnualInvestment |-> yearly_data[i].AnnualInvestment,
             InterestEarned |-> yearly_data[i].InterestEarned,
             EndingBalance |-> yearly_data[i].EndingBalance,
             TotalInvested |-> yearly_data[i].TotalInvested,
             TotalInterest |-> yearly_data[i].TotalInterest,
             Asset |-> asset,
             Allocation |-> allocation]] \o <<>>

\* `if allocation > 0`
AssetIncludedIfNotNegative(allocation) == ~RIsNeg(allocation)
AssetIncluded(allocation) == RIsPos(allocation)

\* the loop over allocations.items(), from the k-th key on
RECURSIVE PortfolioLoop(_, _, _, _, _, _, _)
PortfolioLoop(portfolio_data, k, allocations, returns, principal, monthly_payment, years) ==
    IF k > Len(AssetOrder) THEN portfolio_data
    ELSE IF AssetOrder[k] \in DOMAIN allocations
            /\ AssetIncluded(allocations[AssetOrder[k]])
    THEN CHOOSE result \in
            {PortfolioLoop(portfolio_data \o rows, k + 1, allocations,
                           returns, principal, monthly_payment, years) :
                rows \in {AssetRows(allocations, returns, principal,
                                    monthly_payment, years, AssetOrder[k])}} :
            TRUE
    ELSE PortfolioLoop(portfolio_data, k + 1, allocations, returns,
                       principal, monthly_payment, years)

\* calculate_portfolio_returns: the rows of the concatenated DataFrame, <<>>
\* for the empty DataFrame
calculate_portfolio_returns(allocations, returns, principal, monthly_payment, years) ==
    PortfolioLoop(<<>>, 1, allocations, returns, principal, monthly_payment,
                  years)

\* the sum of a column over the rows of the given year
RECURSIVE SumColumn(_, _, _, _)
SumColumn(rows, year, column, i) ==
    IF i > Len(rows) THEN R(0)
    ELSE CHOOSE result \in
            {IF rows[i].Year = year THEN RAdd(rows[i][column], rest)
                                    ELSE rest :
                rest \in {SumColumn(rows, year, column, i + 1)}} : TRUE

\* ------------------------------------------------------------------------
\* State
\* ------------------------------------------------------------------------
VARIABLES
    RISK_PROFILES,      \* the module-level dictionaries
    DEFAULT_RETURNS,
    ASSET_VOLATILITY,
    store,              \* data of portfolio-allocations-store, in the browser
    request,            \* the callback request the server is handling
    response,           \* what the server answered, until the browser has
                        \* applied it
    args,               \* the arguments of a direct call of the engine
    fv_out,             \* what calculate_future_value returned for args
    ledger_out,         \* what generate_year_by_year_data returned for args
    block,              \* the return, risk and advice block of lines 907-969
                        \* on inputs of its own, and what it computed
    in_flight,          \* per server thread, the callback it is running and
                        \* that callback's local variables
    panel,              \* the allocation panel in the browser: the radio
                        \* risk-profile, the six sliders, their labels and
                        \* the allocation message
    pending             \* the callback requests the browser has sent and
                        \* the server has not answered, oldest first

tables == <<RISK_PROFILES, DEFAULT_RETURNS, ASSET_VOLATILITY>>
appVars == <<store, request, response>>
engineVars == <<args, fv_out, ledger_out, block>>
panelVars == <<panel, pending>>
vars == <<RISK_PROFILES, DEFAULT_RETURNS, ASSET_VOLATILITY,
          store, request, response, args, fv_out, ledger_out, block,
          in_flight, panel, pending>>

InitTables ==
    /\ RISK_PROFILES = InitialRiskProfiles
    /\ DEFAULT_RETURNS = InitialReturns
    /\ ASSET_VOLATILITY = InitialVolatility

\* None: dcc.Store has no data before update_allocation_labels has answered
NoAllocations == <<>>
NoRequest == [callback |-> "none"]
NoResponse == [callback |-> "none"]

InitAppIdle ==
    /\ store = NoAllocations
    /\ request = NoRequest
    /\ response = NoResponse

\* the threads of the server that app.run_server starts (line 1081)
Threads == {"thread-1", "thread-2"}
IdleThread == [pc |-> "idle"]

InitThreadsIdle == in_flight = [t \in Threads |-> IdleThread]

\* the panel as the layout has it (lines 310-320, 393-447): moderate is
\* selected, the sliders show 35, 15, 15, 25, 10, 0 and are disabled, the
\* allocation message is empty
InitialPanel ==
    [risk_profile |-> "moderate",
     sliders |-> [stocks_kr |-> 35, stocks_global |-> 15, reits |-> 15,
                  bonds |-> 25, deposits |-> 10, crypto |-> 0],
     disabled |-> [asset \in Assets |-> TRUE],
     labels |-> [stocks_kr |-> 35, stocks_global |-> 15, reits |-> 15,
                 bonds |-> 25, deposits |-> 10, crypto |-> 0],
     warning |-> "",
     last_input |-> "none"]

InitPanelIdle ==
    /\ panel = InitialPanel
    /\ pending = <<>>

\* ------------------------------------------------------------------------
\* Direct calls of the two pure functions
\* ------------------------------------------------------------------------
MaxYears == 2
MaxRatePct == 6

EngineYears == (-1) .. MaxYears
EngineRates == {Frac(p, 100) : p \in {-MaxRatePct, -1, 0, 1, MaxRatePct}}
EnginePrincipals == {R(-10000), R(0), R(10000000)}
EnginePayments == {R(-10000), R(0), R(1140000)}
Frequencies == {"monthly", "yearly"}

EngineArgs ==
    [principal : EnginePrincipals, monthly_payment : EnginePayments,
     annual_rate : EngineRates, years : EngineYears,
     compound_frequency : Frequencies]

NotCalled == [status |-> "not called"]

InitEngineIdle ==
    /\ args = [principal |-> R(0), monthly_payment |-> R(0),
               annual_rate |-> R(0), years |-> 1,
               compound_frequency |-> "monthly"]
    /\ fv_out = NotCalled
    /\ ledger_out = NotCalled
    /\ block = NotCalled

InitEngine ==
    /\ InitTables
    /\ InitAppIdle
    /\ InitThreadsIdle
    /\ InitPanelIdle
    /\ args \in EngineArgs
    /\ fv_out = NotCalled
    /\ ledger_out = NotCalled
    /\ block = NotCalled

CallFutureValue ==
    /\ fv_out = NotCalled
    /\ fv_out' = [status |-> "returned",
                  value |-> calculate_future_value(
                                args.principal, args.monthly_payment,
                                args.annual_rate, args.years,
                                args.compound_frequency)]
    /\ UNCHANGED <<tables, panelVars, appVars, args, ledger_out, block, in_flight>>

CallLedger ==
    /\ ledger_out = NotCalled
    /\ ledger_out' = [status |-> "returned",
                      data |-> generate_year_by_year_data(
                                   args.principal, args.monthly_payment,
                                   args.annual_rate, args.years)]
    /\ UNCHANGED <<tables, panelVars, appVars, args, fv_out, block, in_flight>>

NextEngine == CallFutureValue \/ CallLedger

SpecEngine == InitEngine /\ [][NextEngine]_vars

\* ------------------------------------------------------------------------
\* The Dash callbacks (src/app.py, lines 501-1077).  The browser sends one
\* callback request, the server runs the callback and answers, the browser
\* applies the answer.  Amounts arrive in units of 10,000 won, the annual
\* return in percent.
\* ------------------------------------------------------------------------
WonPerUnit == 10000
InflationRate == Frac(25, 1000)
TaxThreshold == 20000000
TaxRate == Frac(154, 1000)

\* the tax of line 529 if it were taken on all of the interest
TaxOnAllInterest(total_interest) ==
    IF RGt(total_interest, R(0))
    THEN RMul(total_interest, TaxRate)
    ELSE R(0)

\* df['Total Interest'].apply(lambda x: max(0, (x - 20000000) * 0.154)
\*                                      if x > 20000000 else 0)
TaxOn(total_interest) ==
    IF RGt(total_interest, R(TaxThreshold))
    THEN LET tax == RMul(RSub(total_interest, R(TaxThreshold)), TaxRate)
         IN  IF RIsNeg(tax) THEN R(0) ELSE tax
    ELSE R(0)

\* lines 527-533 and 566-567: the optional tax columns and the summary
\* numbers; df.iloc[-1] raises on the empty DataFrame of years < 1
simple_investment_summary(df, options) ==
    IF df = <<>>
    THEN [outcome |-> "exception"]
    ELSE [outcome |-> "rendered",
          df |-> df,
          tax |-> IF "tax" \in options
                  THEN [i \in 1 .. Len(df) |-> TaxOn(df[i].TotalInterest)]
                           \o <<>>
                  ELSE <<>>,
          after_tax_balance |->
              IF "tax" \in options
              THEN [i \in 1 .. Len(df) |->
                       RSub(df[i].EndingBalance, TaxOn(df[i].TotalInterest))]
                       \o <<>>
              ELSE <<>>,
          final_value |->
              IF "tax" \in options
              THEN RSub(df[Len(df)].EndingBalance,
                        TaxOn(df[Len(df)].TotalInterest))
              ELSE df[Len(df)].EndingBalance,
          total_invested |-> df[Len(df)].TotalInvested,
          total_interest |-> df[Len(df)].TotalInterest]

\* lines 513-567
simple_investment_outputs(initial, monthly, annual_return, years, options, compound_freq) ==
    simple_investment_summary(
        generate_year_by_year_data(
            RMul(R(initial), R(WonPerUnit)),
            RMul(R(monthly), R(WonPerUnit)),
            IF "inflation" \in options
            THEN RSub(RDiv(R(annual_return), R(100)), InflationRate)
            ELSE RDiv(R(annual_return), R(100)),
            years),
        options)

\* lines 760-790 if the weights were normalised to sum to 1
allocation_labels_outputs_normalised(sliders) ==
    LET total == sliders["stocks_kr"] + sliders["stocks_global"]
                 + sliders["reits"] + sliders["bonds"]
                 + sliders["deposits"] + sliders["crypto"]
    IN  [labels |-> sliders,
         warning |-> IF total # 100 THEN "should be 100%" ELSE "100%",
         total |-> total,
         allocations |->
             [asset \in Assets |->
                 Frac(sliders[asset], IF total = 0 THEN 100 ELSE total)]]

\* lines 760-790
allocation_labels_outputs(sliders) ==
    LET total == sliders["stocks_kr"] + sliders["stocks_global"]
                 + sliders["reits"] + sliders["bonds"]
                 + sliders["deposits"] + sliders["crypto"]
    IN  [labels |-> sliders,
         warning |-> IF total # 100 THEN "should be 100%" ELSE "100%",
         total |-> total,
         allocations |-> [asset \in Assets |-> Frac(sliders[asset], 100)]]

\* lines 853-854, 902-905 and 1049-1054: the sums over the final year of
\* the portfolio ledger
portfolio_summary(portfolio_df, years) ==
    IF portfolio_df = <<>>
    THEN [outcome |-> "No data"]
    ELSE [outcome |-> "rendered",
          portfolio_df |-> portfolio_df,
          total_value |-> SumColumn(portfolio_df, years, "EndingBalance", 1),
          total_invested |->
              SumColumn(portfolio_df, years, "TotalInvested", 1),
          total_returns |->
              SumColumn(portfolio_df, years, "TotalInterest", 1)]

\* lines 847-854, 902-905 and 1044-1054: the portfolio ledger and its sums
portfolio_totals(allocations, returns, initial, monthly, years) ==
    portfolio_summary(
        calculate_portfolio_returns(
            allocations, returns, RMul(R(initial), R(WonPerUnit)),
            RMul(R(monthly), R(WonPerUnit)), years),
        years)

\* --- lines 907-938, 969 and 1001: return, risk and advice ------------------
RiskFreeRate == Frac(3, 100)

\* one term of line 908
weighted_term_unweighted(allocations, returns, asset) == returns[asset]
weighted_term(allocations, returns, asset) ==
    RMul(allocations[asset], returns[asset])

\* line 908: sum(allocations[asset] * returns[asset] for asset in allocations)
RECURSIVE WeightedSum(_, _, _)
WeightedSum(allocations, returns, k) ==
    IF k > Len(AssetOrder) THEN R(0)
    ELSE IF AssetOrder[k] \in DOMAIN allocations
    THEN RAdd(weighted_term(allocations, returns, AssetOrder[k]),
              WeightedSum(allocations, returns, k + 1))
    ELSE WeightedSum(allocations, returns, k + 1)

weighted_return(allocations, returns) == WeightedSum(allocations, returns, 1)

\* one term of line 915
variance_term_linear(allocations, volatilities, asset) ==
    RMul(allocations[asset], PyPow(volatilities[asset], 2))
variance_term(allocations, volatilities, asset) ==
    RMul(PyPow(allocations[asset], 2), PyPow(volatilities[asset], 2))

\* lines 914-917: the sum under the square root
RECURSIVE VarianceSum(_, _, _)
VarianceSum(allocations, volatilities, k) ==
    IF k > Len(AssetOrder) THEN R(0)
    ELSE IF AssetOrder[k] \in DOMAIN allocations
            /\ AssetOrder[k] \in DOMAIN volatilities
    THEN RAdd(variance_term(allocations, volatilities, AssetOrder[k]),
              VarianceSum(allocations, volatilities, k + 1))
    ELSE VarianceSum(allocations, volatilities, k + 1)

\* lines 913-917
portfolio_volatility(allocations, volatilities) ==
    Sqrt(VarianceSum(allocations, volatilities, 1))

\* line 919
sharpe_ratio_no_risk_free(weighted, volatility) ==
    IF SurdGt(volatility, R(0))
    THEN RDivSurd(weighted, volatility)
    ELSE Exact(R(0))
sharpe_ratio(weighted, volatility) ==
    IF SurdGt(volatility, R(0))
    THEN RDivSurd(RSub(weighted, RiskFreeRate), volatility)
    ELSE Exact(R(0))

\* line 934: allocations.get('stocks_kr', 0) + allocations.get('stocks_global', 0)
DictGet(dict, key, default) ==
    IF key \in DOMAIN dict THEN dict[key] ELSE default
total_equity(allocations) ==
    RAdd(DictGet(allocations, "stocks_kr", R(0)),
         DictGet(allocations, "stocks_global", R(0)))

HighVolatility ==
    "High volatility detected. Consider reducing crypto/stock allocation"
LowVolatility ==
    "Low volatility portfolio. You could take more risk for higher returns"
PoorSharpe ==
    "Poor risk-adjusted returns. Rebalance to more efficient assets"
ExcellentSharpe ==
    "Excellent risk-adjusted returns! Maintain current allocation"
AggressiveEquity ==
    "Very aggressive allocation. Add bonds/deposits for stability"
ConservativeEquity ==
    "Conservative allocation. Consider more equity exposure for growth"

\* lines 921-938, with the closed bands of >= and <=
portfolio_advice_closed_bands(volatility, sharpe, equity) ==
    (IF ~SurdLt(volatility, Frac(20, 100)) THEN <<HighVolatility>>
     ELSE IF ~SurdGt(volatility, Frac(10, 100)) THEN <<LowVolatility>>
     ELSE <<>>)
    \o (IF ~SurdGt(sharpe, Frac(5, 10)) THEN <<PoorSharpe>>
        ELSE IF ~SurdLt(sharpe, R(1)) THEN <<ExcellentSharpe>>
        ELSE <<>>)
    \o (IF RGt(equity, Frac(7, 10)) THEN <<AggressiveEquity>>
        ELSE IF RLt(equity, Frac(3, 10)) THEN <<ConservativeEquity>>
        ELSE <<>>)

\* lines 921-938: portfolio_advice after its three if/elif statements
portfolio_advice(volatility, sharpe, equity) ==
    (IF SurdGt(volatility, Frac(20, 100)) THEN <<HighVolatility>>
     ELSE IF SurdLt(volatility, Frac(10, 100)) THEN <<LowVolatility>>
     ELSE <<>>)
    \o (IF SurdLt(sharpe, Frac(5, 10)) THEN <<PoorSharpe>>
        ELSE IF SurdGt(sharpe, R(1)) THEN <<ExcellentSharpe>>
        ELSE <<>>)
    \o (IF RGt(equity, Frac(7, 10)) THEN <<AggressiveEquity>>
        ELSE IF RLt(equity, Frac(3, 10)) THEN <<ConservativeEquity>>
        ELSE <<>>)

\* lines 907-938, 969 and 1001, from the three numbers they start with
risk_block(weighted, volatility, equity) ==
    [weighted_return |-> weighted,
     portfolio_volatility |-> volatility,
     sharpe_ratio |-> sharpe_ratio(weighted, volatility),
     total_equity |-> equity,
     portfolio_advice |->
         portfolio_advice(volatility, sharpe_ratio(weighted, volatility),
                          equity),
     max_drawdown |-> SurdTimes(volatility, R(2)),
     risk_level |-> IF SurdLt(volatility, Frac(15, 100))
                    THEN "Moderate" ELSE "High"]

risk_metrics(allocations, returns, volatilities) ==
    risk_block(weighted_return(allocations, returns),
               portfolio_volatility(allocations, volatilities),
               total_equity(allocations))

\* (total_value / total_invested - 1) * 100 on numpy floats: a zero divisor
\* gives nan or an infinity and a warning, not an exception
Roi(total_value, total_invested) ==
    IF RIsZero(total_invested)
    THEN IF RIsZero(total_value) THEN "nan"
         ELSE IF RIsNeg(total_value) THEN "-inf" ELSE "inf"
    ELSE RMul(RSub(RDiv(total_value, total_invested), R(1)), R(100))

\* the three outputs of lines 840-1010 from the totals and the risk block
performance_result(totals, risk) ==
    IF totals.outcome = "No data"
    THEN [outcome |-> "No data"]
    ELSE [outcome |-> "rendered",
          portfolio_df |-> totals.portfolio_df,
          total_value |-> totals.total_value,
          total_invested |-> totals.total_invested,
          total_returns |-> totals.total_returns,
          roi |-> Roi(totals.total_value, totals.total_invested),
          weighted_return |-> risk.weighted_return,
          portfolio_volatility |-> risk.portfolio_volatility,
          sharpe_ratio |-> risk.sharpe_ratio,
          total_equity |-> risk.total_equity,
          portfolio_advice |-> risk.portfolio_advice,
          max_drawdown |-> risk.max_drawdown,
          risk_level |-> risk.risk_level]

\* lines 840-1010 if the rebalancing selector entered the calculation
portfolio_performance_outputs_rebalanced(allocations, returns, volatilities, initial, monthly, years, rebalancing, lifecycle) ==
    IF DOMAIN allocations = {}
    THEN [outcome |-> "No data"]
    ELSE performance_result(
             portfolio_totals(allocations, returns, initial, monthly,
                              IF rebalancing = "yearly" THEN years
                                                        ELSE years - 1),
             risk_metrics(allocations, returns, volatilities))

\* lines 840-1010, with the dictionaries the callback reads; rebalancing and
\* lifecycle are parameters the body never uses
portfolio_performance_outputs(allocations, returns, volatilities, initial, monthly, years, rebalancing, lifecycle) ==
    IF DOMAIN allocations = {}
    THEN [outcome |-> "No data"]
    ELSE performance_result(
             portfolio_totals(allocations, returns, initial, monthly, years),
             risk_metrics(allocations, returns, volatilities))

\* lines 1031-1035
scenario_adjustments_skewed ==
    [bull   |-> [name |-> "Bull Market", multiplier |-> Frac(15, 10),
                 volatility |-> Frac(12, 10)],
     bear   |-> [name |-> "Bear Market", multiplier |-> Frac(3, 10),
                 volatility |-> Frac(18, 10)],
     normal |-> [name |-> "Normal Market", multiplier |-> Frac(11, 10),
                 volatility |-> Frac(10, 10)]]

scenario_adjustments ==
    [bull   |-> [name |-> "Bull Market", multiplier |-> Frac(15, 10),
                 volatility |-> Frac(12, 10)],
     bear   |-> [name |-> "Bear Market", multiplier |-> Frac(3, 10),
                 volatility |-> Frac(18, 10)],
     normal |-> [name |-> "Normal Market", multiplier |-> Frac(10, 10),
                 volatility |-> Frac(10, 10)]]

ScenarioButtons == {"bull", "bear", "normal"}

\* line 1041 if the returns were divided by the multiplier
adjusted_returns_divided(returns, scenario) ==
    [k \in DOMAIN returns |-> RDiv(returns[k], scenario.multiplier)]

\* line 1041: a new dictionary, built from the one given
adjusted_returns(returns, scenario) ==
    [k \in DOMAIN returns |-> RMul(returns[k], scenario.multiplier)]

\* lines 1049-1061 if the volatility multiplier scaled the final value
scenario_result_scaled(scenario, totals) ==
    IF totals.outcome = "No data"
    THEN [outcome |-> "No data available"]
    ELSE [outcome |-> "rendered",
          name |-> scenario.name,
          portfolio_df |-> totals.portfolio_df,
          total_value |-> RMul(totals.total_value, scenario.volatility),
          total_invested |-> totals.total_invested,
          total_return |->
              Roi(RMul(totals.total_value, scenario.volatility),
                  totals.total_invested),
          risk_level |->
              IF RGt(scenario.volatility, Frac(15, 10)) THEN "High"
              ELSE IF RGt(scenario.volatility, R(1)) THEN "Moderate"
              ELSE "Normal"]

\* lines 1049-1061: what is shown for the totals of the projection
scenario_result(scenario, totals) ==
    IF totals.outcome = "No data"
    THEN [outcome |-> "No data available"]
    ELSE [outcome |-> "rendered",
          name |-> scenario.name,
          portfolio_df |-> totals.portfolio_df,
          total_value |-> totals.total_value,
          total_invested |-> totals.total_invested,
          total_return |->
              Roi(totals.total_value, totals.total_invested),
          risk_level |->
              IF RGt(scenario.volatility, Frac(15, 10)) THEN "High"
              ELSE IF RGt(scenario.volatility, R(1)) THEN "Moderate"
              ELSE "Normal"]

\* lines 1043-1061: the projection under the adjusted returns
scenario_projection(scenario, adjusted, allocations, initial, monthly, years) ==
    scenario_result(
        scenario,
        portfolio_totals(allocations, adjusted, initial, monthly, years))

\* lines 1023-1061; button is "untriggered" when no button fired the callback
scenario_analysis_outputs(button, allocations, returns, initial, monthly, years) ==
    IF button \notin ScenarioButtons \/ DOMAIN allocations = {}
    THEN [outcome |-> "Click a scenario button to see projections"]
    ELSE scenario_projection(
             scenario_adjustments[button],
             adjusted_returns(returns, scenario_adjustments[button]),
             allocations, initial, monthly, years)

\* --- what the browser can send -----------------------------------------
MaxSlider == 100

\* (initial, monthly, years) of a callback request; the ranges of the
\* sliders, the dropdown and the number fields (lines 191-246, 325-355) are
\* kept by the browser only, the callbacks take what the request carries
AmountInputs ==
    {<<1000, 114, 1>>, <<1000, 114, MaxYears>>, <<1000, 0, 1>>, <<0, 0, 1>>,
     <<-100, 114, 1>>, <<1000, -10, 1>>, <<1000, 114, 0>>}
\* the ends of the three sliders of the simple tab (lines 191-223)
MaxInitial == 10000
MaxMonthly == 500
MaxReturnPct == 30
SimpleAmountInputs == AmountInputs \cup {<<MaxInitial, MaxMonthly, 1>>}
SimpleReturns == {-10, 0, MaxRatePct, MaxReturnPct}
ChartOptions == SUBSET {"inflation", "tax"}
RebalancingPeriods == {"none", "yearly"}
LifecycleOptions == SUBSET {"lifecycle"}

Sliders(kr, global, reits, bonds, deposits, crypto) ==
    [stocks_kr |-> kr, stocks_global |-> global, reits |-> reits,
     bonds |-> bonds, deposits |-> deposits, crypto |-> crypto]

SliderInputs ==
    {Sliders(35, 15, 15, 25, 10, 0),
     Sliders(0, 0, 0, 0, 0, 0),
     Sliders(MaxSlider, 0, 0, 0, 0, 0),
     Sliders(0, 0, 0, 0, 0, MaxSlider),
     Sliders(50, 0, 0, 0, 0, 0),
     Sliders(50, 50, 50, 0, 0, 0)}

Idle == request = NoRequest /\ response = NoResponse

ChangeSimpleInputs ==
    /\ Idle
    /\ \E amounts \in SimpleAmountInputs, annual_return \in SimpleReturns,
          options \in ChartOptions, compound_freq \in Frequencies :
          request' = [callback |-> "update_simple_investment",
                      initial |-> amounts[1], monthly |-> amounts[2],
                      annual_return |-> annual_return, years |-> amounts[3],
                      options |-> options, compound_freq |-> compound_freq]
    /\ UNCHANGED <<tables, panelVars, store, response, engineVars, in_flight>>

MoveSliders ==
    /\ Idle
    /\ \E sliders \in SliderInputs :
          request' = [callback |-> "update_allocation_labels",
                      sliders |-> sliders]
    /\ UNCHANGED <<tables, panelVars, store, response, engineVars, in_flight>>

ChangePortfolioInputs ==
    /\ Idle
    /\ \E amounts \in AmountInputs, rebalancing \in RebalancingPeriods,
          lifecycle \in LifecycleOptions :
          request' = [callback |-> "update_portfolio_performance",
                      allocations |-> store,
                      initial |-> amounts[1], monthly |-> amounts[2],
                      years |-> amounts[3], rebalancing |-> rebalancing,
                      lifecycle |-> lifecycle]
    /\ UNCHANGED <<tables, panelVars, store, response, engineVars, in_flight>>

ClickScenario ==
    /\ Idle
    /\ \E button \in ScenarioButtons \cup {"untriggered"},
          amounts \in AmountInputs :
          request' = [callback |-> "update_scenario_analysis",
                      button |-> button, allocations |-> store,
                      initial |-> amounts[1], monthly |-> amounts[2],
                      years |-> amounts[3]]
    /\ UNCHANGED <<tables, panelVars, store, response, engineVars, in_flight>>

\* --- the callbacks --------------------------------------------------------
Answer(outputs) ==
    /\ response' = [callback |-> request.callback, request |-> request,
                    outputs |-> outputs]
    /\ request' = NoRequest

update_simple_investment ==
    /\ request.callback = "update_simple_investment"
    /\ Answer(simple_investment_outputs(
                  request.initial, request.monthly, request.annual_return,
                  request.years, request.options, request.compound_freq))
    /\ UNCHANGED <<tables, panelVars, store, engineVars, in_flight>>

update_allocation_labels ==
    /\ request.callback = "update_allocation_labels"
    /\ Answer(allocation_labels_outputs(request.sliders))
    /\ UNCHANGED <<tables, panelVars, store, engineVars, in_flight>>

update_portfolio_performance ==
    /\ request.callback = "update_portfolio_performance"
    /\ Answer(portfolio_performance_outputs(
                  request.allocations, DEFAULT_RETURNS, ASSET_VOLATILITY,
                  request.initial,
                  request.monthly, request.years, request.rebalancing,
                  request.lifecycle))
    /\ UNCHANGED <<tables, panelVars, store, engineVars, in_flight>>

update_scenario_analysis ==
    /\ request.callback = "update_scenario_analysis"
    /\ Answer(scenario_analysis_outputs(
                  request.button, request.allocations, DEFAULT_RETURNS,
                  request.initial, request.monthly, request.years))
    /\ UNCHANGED <<tables, panelVars, store, engineVars, in_flight>>

\* the browser applies the answer; only update_allocation_labels has an
\* output that is kept, the data of the store
ApplyResponse ==
    /\ response # NoResponse
    /\ store' = IF response.callback = "update_allocation_labels"
                THEN response.outputs.allocations ELSE store
    /\ response' = NoResponse
    /\ UNCHANGED <<tables, panelVars, request, engineVars, in_flight>>

Init ==
    /\ InitTables
    /\ InitAppIdle
    /\ InitEngineIdle
    /\ InitThreadsIdle
    /\ InitPanelIdle

Next ==
    \/ ChangeSimpleInputs
    \/ MoveSliders
    \/ ChangePortfolioInputs
    \/ ClickScenario
    \/ update_simple_investment
    \/ update_allocation_labels
    \/ update_portfolio_performance
    \/ update_scenario_analysis
    \/ ApplyResponse

Spec == Init /\ [][Next]_vars

\* ------------------------------------------------------------------------
\* The allocation panel: the radio risk-profile drives the six sliders
\* through update_sliders_by_profile, and the sliders drive the labels, the
\* allocation message and the store through update_allocation_labels.  The
\* browser sends a request when an input of a callback changes, with the
\* values the inputs have at that moment, and the answers are applied in the
\* order of the requests.
\* ------------------------------------------------------------------------
Profiles == {"conservative", "moderate", "aggressive", "custom"}

\* int(profile[asset] * 100) of lines 735-740: the weight is a float, the
\* product is a float, int() truncates
profile_percent(weight) == PyInt(FloatTimesInt(Float(weight), 100))

\* lines 727-741 if the sliders were left enabled for a preset
sliders_by_profile_outputs_enabled(profiles, risk_profile) ==
    IF risk_profile = "custom"
    THEN [sliders |-> [stocks_kr |-> 35, stocks_global |-> 15, reits |-> 15,
                       bonds |-> 25, deposits |-> 10, crypto |-> 0],
          disabled |-> [asset \in Assets |-> FALSE]]
    ELSE [sliders |-> [asset \in Assets |->
                          profile_percent(profiles[risk_profile][asset])],
          disabled |-> [asset \in Assets |-> FALSE]]

\* lines 727-741
sliders_by_profile_outputs(profiles, risk_profile) ==
    IF risk_profile = "custom"
    THEN [sliders |-> [stocks_kr |-> 35, stocks_global |-> 15, reits |-> 15,
                       bonds |-> 25, deposits |-> 10, crypto |-> 0],
          disabled |-> [asset \in Assets |-> FALSE]]
    ELSE [sliders |-> [asset \in Assets |->
                          profile_percent(profiles[risk_profile][asset])],
          disabled |-> [asset \in Assets |-> TRUE]]

\* the requests that may wait for the server at one time
MaxPending == 2

\* what the user drags a slider to: the ends and the middle of two sliders
\* (min 0, max 100, step 5 of lines 396-447)
DragInputs ==
    {<<"stocks_kr", 0>>, <<"stocks_kr", MaxSlider>>, <<"crypto", 50>>}

SlidersRequest(sliders) ==
    [callback |-> "update_allocation_labels", sliders |-> sliders]

\* the page is loaded: Dash calls the callbacks once with the values of the
\* layout, update_allocation_labels after the callback that writes its inputs
InitProfile ==
    /\ InitTables
    /\ InitAppIdle
    /\ InitEngineIdle
    /\ InitThreadsIdle
    /\ panel = InitialPanel
    /\ pending = <<[callback |-> "update_sliders_by_profile",
                    risk_profile |-> InitialPanel.risk_profile]>>

\* the user selects another risk profile
SelectRiskProfile ==
    /\ Len(pending) < MaxPending
    /\ \E risk_profile \in Profiles \ {panel.risk_profile} :
          /\ panel' = [panel EXCEPT !.risk_profile = risk_profile,
                                    !.last_input = "risk-profile"]
          /\ pending' = Append(pending,
                               [callback |-> "update_sliders_by_profile",
                                risk_profile |-> risk_profile])
    /\ UNCHANGED <<tables, appVars, engineVars, in_flight>>

\* the user drags a slider that is enabled
DragSlider ==
    /\ Len(pending) < MaxPending
    /\ \E input \in DragInputs :
          /\ ~panel.disabled[input[1]]
          /\ panel.sliders[input[1]] # input[2]
          /\ panel' = [panel EXCEPT !.sliders[input[1]] = input[2],
                                    !.last_input = "slider"]
          /\ pending' = Append(pending,
                               SlidersRequest([panel.sliders EXCEPT
                                                  ![input[1]] = input[2]]))
    /\ UNCHANGED <<tables, appVars, engineVars, in_flight>>

\* lines 711-741; the browser sets the sliders and, their values being
\* inputs of update_allocation_labels, requests that callback
update_sliders_by_profile ==
    /\ pending # <<>>
    /\ Head(pending).callback = "update_sliders_by_profile"
    /\ \E outputs \in {sliders_by_profile_outputs(
                           RISK_PROFILES, Head(pending).risk_profile)} :
          /\ panel' = [panel EXCEPT !.sliders = outputs.sliders,
                                    !.disabled = outputs.disabled]
          /\ pending' = Append(Tail(pending), SlidersRequest(outputs.sliders))
    /\ UNCHANGED <<tables, appVars, engineVars, in_flight>>

\* lines 744-790 for the oldest request; the browser sets the labels, the
\* allocation message and the data of the store
AnswerAllocationLabels ==
    /\ pending # <<>>
    /\ Head(pending).callback = "update_allocation_labels"
    /\ \E outputs \in {allocation_labels_outputs(Head(pending).sliders)} :
          /\ panel' = [panel EXCEPT !.labels = outputs.labels,
                                    !.warning = outputs.warning]
          /\ store' = outputs.allocations
    /\ pending' = Tail(pending)
    /\ UNCHANGED <<tables, request, response, engineVars, in_flight>>

NextProfile ==
    \/ SelectRiskProfile
    \/ DragSlider
    \/ update_sliders_by_profile
    \/ AnswerAllocationLabels

SpecProfile == InitProfile /\ [][NextProfile]_vars

\* ------------------------------------------------------------------------
\* The return, risk and advice block of update_portfolio_performance (lines
\* 907-938, 969) on its own: from an allocation, which the callback only
\* lets through when some weight is positive, and from the three numbers
\* the advice is classified by.
\* ------------------------------------------------------------------------
BlockAllocations ==
    {allocation_labels_outputs(sliders).allocations : sliders \in SliderInputs}

\* weighted return, volatility and equity weight, in hundredths; the pairs
\* of return and volatility put the Sharpe ratio below, at and above its
\* two thresholds
BlockReturns == {Frac(p, 100) : p \in {0, 3, 8, 13, 23, 30}}
BlockVolatilities == {Frac(p, 100) : p \in {0, 5, 10, 20, 25}}
BlockEquities == {Frac(p, 100) : p \in {0, 29, 30, 50, 70, 71, 100}}

BlockInputs ==
    {[status |-> "allocation given", allocations |-> allocations] :
        allocations \in BlockAllocations}
    \cup
    [status : {"numbers given"}, weighted_return : BlockReturns,
     portfolio_volatility : BlockVolatilities, total_equity : BlockEquities]

InitMetrics ==
    /\ InitTables
    /\ InitAppIdle
    /\ InitThreadsIdle
    /\ InitPanelIdle
    /\ args = [principal |-> R(0), monthly_payment |-> R(0),
               annual_rate |-> R(0), years |-> 1,
               compound_frequency |-> "monthly"]
    /\ fv_out = NotCalled
    /\ ledger_out = NotCalled
    /\ block \in BlockInputs

\* lines 907-938 and 969 for an allocation
RunRiskMetrics ==
    /\ block.status = "allocation given"
    /\ block' = [status |-> "returned", given |-> block,
                 risk |-> risk_metrics(block.allocations, DEFAULT_RETURNS,
                                       ASSET_VOLATILITY)]
    /\ UNCHANGED <<tables, panelVars, appVars, args, fv_out, ledger_out, in_flight>>

\* lines 919-938 and 969 for a weighted return, a volatility and an equity
\* weight
RunRiskBlock ==
    /\ block.status = "numbers given"
    /\ block' = [status |-> "returned", given |-> block,
                 risk |-> risk_block(block.weighted_return,
                                     Exact(block.portfolio_volatility),
                                     block.total_equity)]
    /\ UNCHANGED <<tables, panelVars, appVars, args, fv_out, ledger_out, in_flight>>

NextMetrics == RunRiskMetrics \/ RunRiskBlock

SpecMetrics == InitMetrics /\ [][NextMetrics]_vars

\* ------------------------------------------------------------------------
\* The callbacks on a threaded server: the requests of several browsers are
\* in flight at once, each on its own thread.  A callback that reads a
\* module-level dictionary is split where it binds the dictionary, so that
\* another thread can run between the binding and the calculation.
\* ------------------------------------------------------------------------
\* the allocation of the "moderate" profile, as the store holds it
ModerateAllocations ==
    allocation_labels_outputs(Sliders(35, 15, 15, 25, 10, 0)).allocations

ServerRequests ==
    {[callback |-> "update_simple_investment", initial |-> 1000,
      monthly |-> 114, annual_return |-> MaxRatePct, years |-> years,
      options |-> {}, compound_freq |-> "monthly"] : years \in {0, 1}}
    \cup
    {[callback |-> "update_portfolio_performance",
      allocations |-> ModerateAllocations, initial |-> 1000,
      monthly |-> 114, years |-> years, rebalancing |-> "none",
      lifecycle |-> {}] : years \in {0, 1}}
    \cup
    {[callback |-> "update_scenario_analysis", button |-> button,
      allocations |-> ModerateAllocations, initial |-> 1000,
      monthly |-> 114, years |-> 1] : button \in ScenarioButtons}

\* the other threads that are between the binding and the calculation
Others(t) == {u \in Threads \ {t} : in_flight[u].pc = "bound"}

Return(t, outputs) ==
    in_flight' = [in_flight EXCEPT ![t] =
                     [pc |-> "returned", request |-> in_flight[t].request,
                      outputs |-> outputs, overlapped |-> Others(t) # {}]]

\* a request arrives and the server hands it to a free thread
Dispatch(t) ==
    /\ in_flight[t].pc = "idle"
    /\ \E req \in ServerRequests :
          in_flight' = [in_flight EXCEPT ![t] =
                           [pc |-> "called", request |-> req]]
    /\ UNCHANGED <<tables, panelVars, appVars, engineVars>>

\* lines 513-567: reads no module-level dictionary of the three
RunSimpleInvestment(t) ==
    /\ in_flight[t].pc = "called"
    /\ in_flight[t].request.callback = "update_simple_investment"
    /\ LET req == in_flight[t].request
       IN  Return(t, simple_investment_outputs(
                         req.initial, req.monthly, req.annual_return,
                         req.years, req.options, req.compound_freq))
    /\ UNCHANGED <<tables, panelVars, appVars, engineVars>>

\* lines 841-844: `returns = DEFAULT_RETURNS` binds the dictionary itself,
\* not a copy of it
BindPortfolioReturns(t) ==
    /\ in_flight[t].pc = "called"
    /\ in_flight[t].request.callback = "update_portfolio_performance"
    /\ IF DOMAIN in_flight[t].request.allocations = {}
       THEN Return(t, [outcome |-> "No data"])
       ELSE in_flight' = [in_flight EXCEPT ![t] =
                             [pc |-> "bound",
                              request |-> in_flight[t].request,
                              returns |-> "DEFAULT_RETURNS"]]
    /\ UNCHANGED <<tables, panelVars, appVars, engineVars>>

\* lines 847-905: the calculation looks the returns up in the dictionary as
\* it is now
RunPortfolioPerformance(t) ==
    /\ in_flight[t].pc = "bound"
    /\ in_flight[t].request.callback = "update_portfolio_performance"
    /\ LET req == in_flight[t].request
       IN  Return(t, portfolio_performance_outputs(
                         req.allocations, DEFAULT_RETURNS, ASSET_VOLATILITY,
                         req.initial, req.monthly, req.years,
                         req.rebalancing, req.lifecycle))
    /\ UNCHANGED <<tables, panelVars, appVars, engineVars>>

\* the binding of line 1041 if it adjusted the module-level dictionary
BindScenarioReturnsInPlace(t) ==
    /\ in_flight[t].pc = "called"
    /\ in_flight[t].request.callback = "update_scenario_analysis"
    /\ LET req == in_flight[t].request
           adjusted == adjusted_returns(DEFAULT_RETURNS,
                                        scenario_adjustments[req.button])
       IN  /\ DEFAULT_RETURNS' = adjusted
           /\ in_flight' = [in_flight EXCEPT ![t] =
                               [pc |-> "bound", request |-> req,
                                returns |-> adjusted]]
    /\ UNCHANGED <<RISK_PROFILES, ASSET_VOLATILITY, panelVars, appVars,
                   engineVars>>

\* lines 1024-1041: adjusted_returns is a new dictionary, local to the call
BindScenarioReturns(t) ==
    /\ in_flight[t].pc = "called"
    /\ in_flight[t].request.callback = "update_scenario_analysis"
    /\ LET req == in_flight[t].request
       IN  IF req.button \notin ScenarioButtons
              \/ DOMAIN req.allocations = {}
           THEN Return(t, [outcome |->
                    "Click a scenario button to see projections"])
           ELSE in_flight' = [in_flight EXCEPT ![t] =
                    [pc |-> "bound", request |-> req,
                     returns |-> adjusted_returns(
                                     DEFAULT_RETURNS,
                                     scenario_adjustments[req.button])]]
    /\ UNCHANGED <<tables, panelVars, appVars, engineVars>>

\* lines 1043-1077
RunScenarioAnalysis(t) ==
    /\ in_flight[t].pc = "bound"
    /\ in_flight[t].request.callback = "update_scenario_analysis"
    /\ LET req == in_flight[t].request
       IN  Return(t, scenario_projection(
                         scenario_adjustments[req.button],
                         in_flight[t].returns, req.allocations,
                         req.initial, req.monthly, req.years))
    /\ UNCHANGED <<tables, panelVars, appVars, engineVars>>

\* the answer, or the error of a callback that raised, goes to the browser
\* and the thread is free again
Respond(t) ==
    /\ in_flight[t].pc = "returned"
    /\ in_flight' = [in_flight EXCEPT ![t] = IdleThread]
    /\ UNCHANGED <<tables, panelVars, appVars, engineVars>>

InitServer ==
    /\ InitTables
    /\ InitAppIdle
    /\ InitEngineIdle
    /\ InitThreadsIdle
    /\ InitPanelIdle

NextServer ==
    \E t \in Threads :
        \/ Dispatch(t)
        \/ RunSimpleInvestment(t)
        \/ BindPortfolioReturns(t)
        \/ RunPortfolioPerformance(t)
        \/ BindScenarioReturns(t)
        \/ RunScenarioAnalysis(t)
        \/ Respond(t)

SpecServer == InitServer /\ [][NextServer]_vars

\* ------------------------------------------------------------------------
\* Properties of the engine
\* ------------------------------------------------------------------------
ValidArgs ==
    /\ ~RIsNeg(args.principal)
    /\ ~RIsNeg(args.monthly_payment)
    /\ args.years >= 1

LedgerReturned == ledger_out.status = "returned"
FvReturned == fv_out.status = "returned"

\* the running balance of the ledger builder after `months` monthly steps
RunningBalance(months) ==
    MonthLoop(args.principal, args.monthly_payment, args.annual_rate, months)

\* C1: for valid arguments every year record reconciles: Ending Balance =
\* Beginning Balance + Annual Investment + Interest Earned.
C1_Reconciliation ==
    (LedgerReturned /\ ValidArgs) =>
        \A y \in 1 .. Len(ledger_out.data) :
            LET rec == ledger_out.data[y]
            IN  REq(rec.EndingBalance,
                    RAdd(RAdd(rec.BeginningBalance, rec.AnnualInvestment),
                         rec.InterestEarned))

\* a ledger of MaxYears years with contributions and a nonzero rate
C1_Witness ==
    /\ LedgerReturned /\ ValidArgs
    /\ Len(ledger_out.data) >= 2
    /\ RIsPos(args.monthly_payment) /\ RIsPos(args.principal)
    /\ RIsNeg(args.annual_rate)

\* C2: the recorded Interest Earned of year y is the growth of the running
\* balance over the year's twelve steps less the year's contributions.
C2_InterestIsGrowth ==
    (LedgerReturned /\ ValidArgs) =>
        \A y \in 1 .. Len(ledger_out.data) :
            REq(ledger_out.data[y].InterestEarned,
                RSub(RSub(RunningBalance(MonthsPerYear * y),
                          RunningBalance(MonthsPerYear * (y - 1))),
                     RMul(R(MonthsPerYear), args.monthly_payment)))

RECURSIVE SumInterest(_, _)
SumInterest(data, y) ==
    IF y = 0 THEN R(0)
    ELSE RAdd(SumInterest(data, y - 1), data[y].InterestEarned)

\* C3: the recorded Total Interest of year y is the sum of the recorded
\* Interest Earned of years 1..y.
C3_CumulativeInterest ==
    (LedgerReturned /\ ValidArgs) =>
        \A y \in 1 .. Len(ledger_out.data) :
            REq(ledger_out.data[y].TotalInterest,
                SumInterest(ledger_out.data, y))

\* the period rate and the period count of the call
PeriodRate ==
    IF args.compound_frequency = "monthly"
    THEN RDiv(args.annual_rate, R(MonthsPerYear)) ELSE args.annual_rate
PeriodCount ==
    IF args.compound_frequency = "monthly"
    THEN args.years * MonthsPerYear ELSE args.years

\* C4: calculate_future_value returns principal*(1+r)^n + c*n only when the
\* period rate r is 0, and principal*(1+r)^n + c*((1+r)^n - 1)/r for every
\* other rate, negative ones included.
C4_AnnuityUnlessZeroRate ==
    (FvReturned /\ ValidArgs) =>
        LET growth == PyPow(RAdd(R(1), PeriodRate), PeriodCount)
        IN  REq(fv_out.value,
                RAdd(RMul(args.principal, growth),
                     IF RIsZero(PeriodRate)
                     THEN RMul(args.monthly_payment, R(PeriodCount))
                     ELSE RMul(args.monthly_payment,
                               RDiv(RSub(growth, R(1)), PeriodRate))))

\* C5: the Total Interest of the last year record is the monthly future
\* value less the principal and the 12 * years contributions.
C5_FinalInterestIsFutureValue ==
    (LedgerReturned /\ FvReturned /\ ValidArgs
        /\ args.compound_frequency = "monthly") =>
        REq(ledger_out.data[Len(ledger_out.data)].TotalInterest,
            RSub(fv_out.value,
                 RAdd(args.principal,
                      RMul(R(MonthsPerYear * args.years),
                           args.monthly_payment))))

\* C20: the recorded Beginning Balance of year 1 is the principal and the
\* recorded Beginning Balance of every later year is the recorded Ending
\* Balance of the year before.
C20_BeginningIsPreviousEnding ==
    (LedgerReturned /\ ValidArgs) =>
        \A y \in 1 .. Len(ledger_out.data) :
            REq(ledger_out.data[y].BeginningBalance,
                IF y = 1 THEN args.principal
                ELSE ledger_out.data[y - 1].EndingBalance)

\* the same two statements for the rates the closed form handles
C4_NonNegativeRate ==
    ~RIsNeg(args.annual_rate) => C4_AnnuityUnlessZeroRate
C5_NonNegativeRate ==
    ~RIsNeg(args.annual_rate) => C5_FinalInterestIsFutureValue

\* ------------------------------------------------------------------------
\* Properties of the callbacks
\* ------------------------------------------------------------------------
Answered(callback) == response.callback = callback

\* the rows a portfolio answer carries, none when nothing was rendered
LedgerOf(outputs) ==
    IF outputs.outcome = "rendered" THEN outputs.portfolio_df ELSE <<>>

RowsOfAsset(rows, asset) == SelectSeq(rows, LAMBDA row : row.Asset = asset)

AssetsIn(rows) == {rows[i].Asset : i \in 1 .. Len(rows)}

PositiveAssets(allocations) ==
    {asset \in DOMAIN allocations : RIsPos(allocations[asset])}

\* the seven figures of two year records agree
SameYearRecord(a, b) ==
    /\ a.Year = b.Year
    /\ REq(a.BeginningBalance, b.BeginningBalance)
    /\ REq(a.AnnualInvestment, b.AnnualInvestment)
    /\ REq(a.InterestEarned, b.InterestEarned)
    /\ REq(a.EndingBalance, b.EndingBalance)
    /\ REq(a.TotalInvested, b.TotalInvested)
    /\ REq(a.TotalInterest, b.TotalInterest)

SameLedger(rows, other) ==
    /\ Len(rows) = Len(other)
    /\ \A i \in 1 .. Len(rows) : SameYearRecord(rows[i], other[i])

SingleAsset(allocations, asset) ==
    /\ DOMAIN allocations = Assets
    /\ REq(allocations[asset], R(1))
    /\ \A other \in Assets \ {asset} : RIsZero(allocations[other])

\* C6: with one asset at weight 1.0 and the others at 0, the rows
\* calculate_portfolio_returns gives for that asset are the year records of
\* generate_year_by_year_data on the full principal, the full contribution
\* and that asset's return.
C6_SingleAssetIsLedger ==
    Answered("update_portfolio_performance") =>
        \A asset \in Assets :
            SingleAsset(response.request.allocations, asset) =>
                SameLedger(
                    RowsOfAsset(LedgerOf(response.outputs), asset),
                    generate_year_by_year_data(
                        RMul(R(response.request.initial), R(WonPerUnit)),
                        RMul(R(response.request.monthly), R(WonPerUnit)),
                        InitialReturns[asset], response.request.years))

C6_Witness ==
    /\ Answered("update_portfolio_performance")
    /\ SingleAsset(response.request.allocations, "crypto")
    /\ response.request.years = MaxYears
    /\ response.request.monthly > 0
    /\ Len(LedgerOf(response.outputs)) = MaxYears

PortfolioAnswered ==
    \/ Answered("update_portfolio_performance")
    \/ /\ Answered("update_scenario_analysis")
       /\ response.request.button \in ScenarioButtons

\* C7: for a horizon of at least one year the portfolio ledger has rows of
\* exactly the assets of positive weight; when all weights are 0 the ledger
\* is empty and the two callbacks answer 'No data' and 'No data available'.
C7_RowsIffPositiveWeight ==
    (PortfolioAnswered /\ DOMAIN response.request.allocations # {}) =>
        /\ response.request.years >= 1 =>
              AssetsIn(LedgerOf(response.outputs))
                  = PositiveAssets(response.request.allocations)
        /\ PositiveAssets(response.request.allocations) = {} =>
              /\ LedgerOf(response.outputs) = <<>>
              /\ response.outputs.outcome =
                    IF Answered("update_portfolio_performance")
                    THEN "No data" ELSE "No data available"

\* a ledger that leaves out the assets of weight 0
C7_Witness ==
    /\ Answered("update_portfolio_performance")
    /\ response.outputs.outcome = "rendered"
    /\ AssetsIn(LedgerOf(response.outputs))
          = Assets \ {"crypto"}

\* an allocation of six zero weights, answered with 'No data available'
C7_WitnessEmpty ==
    /\ Answered("update_scenario_analysis")
    /\ DOMAIN response.request.allocations = Assets
    /\ PositiveAssets(response.request.allocations) = {}
    /\ response.outputs.outcome = "No data available"

InvalidParameters(req) ==
    req.years <= 0 \/ req.initial < 0 \/ req.monthly < 0

\* C8: a request with a horizon <= 0, a negative principal or a negative
\* contribution is answered with the invalid-parameter outcome: no ledger,
\* no summary numbers, no exception.
C8_InvalidRefused ==
    ((Answered("update_simple_investment") \/ PortfolioAnswered)
        /\ InvalidParameters(response.request)) =>
        response.outputs.outcome = "invalid parameter"

\* C9: the answer of update_scenario_analysis to the normal scenario carries
\* the ledger, the final value and the total invested that
\* update_portfolio_performance computes for the same allocation, amounts
\* and horizon.
C9_NormalIsUnadjusted ==
    (Answered("update_scenario_analysis")
        /\ response.request.button = "normal") =>
        LET unadjusted == portfolio_performance_outputs(
                              response.request.allocations, InitialReturns,
                              InitialVolatility,
                              response.request.initial,
                              response.request.monthly,
                              response.request.years, "none", {})
        IN  /\ SameLedger(LedgerOf(response.outputs), LedgerOf(unadjusted))
            /\ (response.outputs.outcome = "rendered")
                  = (unadjusted.outcome = "rendered")
            /\ response.outputs.outcome = "rendered" =>
                  /\ REq(response.outputs.total_value,
                         unadjusted.total_value)
                  /\ REq(response.outputs.total_invested,
                         unadjusted.total_invested)

C9_Witness ==
    /\ Answered("update_scenario_analysis")
    /\ response.request.button = "normal"
    /\ response.outputs.outcome = "rendered"
    /\ Cardinality(AssetsIn(response.outputs.portfolio_df)) >= 3
    /\ response.request.years = MaxYears
    /\ RIsPos(response.outputs.total_value)

\* the asset's row of year 1 in the portfolio ledger
FirstRow(rows, asset) == RowsOfAsset(rows, asset)[1]

RenderedPortfolio ==
    /\ Answered("update_portfolio_performance")
    /\ response.outputs.outcome = "rendered"

\* C11: update_allocation_labels warns exactly when the six sliders do not
\* sum to 100, stores slider/100 for every asset whatever the sum, and the
\* portfolio ledger scales principal and contribution by the stored weights.
C11_MismatchWarnedNotNormalised ==
    /\ Answered("update_allocation_labels") =>
          /\ (response.outputs.warning = "should be 100%")
                = (response.outputs.total # 100)
          /\ (response.outputs.warning = "100%")
                = (response.outputs.total = 100)
          /\ \A asset \in Assets :
                REq(RMul(response.outputs.allocations[asset], R(100)),
                    R(response.request.sliders[asset]))
    /\ store # NoAllocations =>
          \E sliders \in SliderInputs :
              \A asset \in Assets :
                  REq(RMul(store[asset], R(100)), R(sliders[asset]))
    /\ RenderedPortfolio =>
          \A asset \in AssetsIn(response.outputs.portfolio_df) :
              LET row == FirstRow(response.outputs.portfolio_df, asset)
                  weight == response.request.allocations[asset]
              IN  /\ REq(row.Allocation, weight)
                  /\ REq(row.AnnualInvestment,
                         RMul(weight,
                              R(MonthsPerYear * response.request.monthly
                                  * WonPerUnit)))
                  /\ REq(row.TotalInvested,
                         RMul(weight,
                              R((response.request.initial
                                   + MonthsPerYear * response.request.monthly)
                                * WonPerUnit)))

\* three sliders at 50: the weights sum to 1.5 and the portfolio invests one
\* and a half times the amounts
C11_Witness ==
    /\ RenderedPortfolio
    /\ REq(weighted_return(response.request.allocations,
                           [asset \in Assets |-> R(1)]),
           Frac(3, 2))
    /\ response.request.monthly > 0
    /\ REq(response.outputs.total_invested,
           RMul(Frac(3, 2),
                R((response.request.initial
                     + MonthsPerYear * response.request.monthly
                       * response.request.years) * WonPerUnit)))

\* the sum of weight * return over the assets of the set
RECURSIVE ReturnOver(_, _, _)
ReturnOver(S, allocations, returns) ==
    IF S = {} THEN R(0)
    ELSE LET asset == CHOOSE a \in S : TRUE
         IN  RAdd(RMul(allocations[asset], returns[asset]),
                  ReturnOver(S \ {asset}, allocations, returns))

\* the request carries the allocation of the "moderate" profile:
\* 0.35, 0.15, 0.15, 0.25, 0.10 and 0
ModerateRequested ==
    /\ DOMAIN response.request.allocations = Assets
    /\ \A asset \in Assets :
          REq(response.request.allocations[asset],
              InitialRiskProfiles.moderate[asset])

\* C12 as stated: the weighted expected return is the sum of weight * return
\* over the assets of positive weight, and 0.06375 for the moderate
\* allocation with DEFAULT_RETURNS.
C12_WeightedReturnIs6375 ==
    RenderedPortfolio =>
        /\ REq(response.outputs.weighted_return,
               ReturnOver(PositiveAssets(response.request.allocations),
                          response.request.allocations, InitialReturns))
        /\ ModerateRequested =>
              REq(response.outputs.weighted_return, Frac(6375, 100000))

\* C12, amended: the weighted expected return is the sum of weight * return
\* over the assets of positive weight, and 0.06225 for the moderate
\* allocation with DEFAULT_RETURNS.
C12_WeightedReturnIs6225 ==
    RenderedPortfolio =>
        /\ REq(response.outputs.weighted_return,
               ReturnOver(PositiveAssets(response.request.allocations),
                          response.request.allocations, InitialReturns))
        /\ ModerateRequested =>
              REq(response.outputs.weighted_return, Frac(6225, 100000))

C12_Witness ==
    /\ RenderedPortfolio
    /\ ModerateRequested
    /\ Cardinality(PositiveAssets(response.request.allocations)) = 5

\* the sum of weight^2 * volatility^2 over the assets of the set
RECURSIVE VarianceOver(_, _, _)
VarianceOver(S, allocations, volatilities) ==
    IF S = {} THEN R(0)
    ELSE LET asset == CHOOSE a \in S : TRUE
             product == RMul(allocations[asset], volatilities[asset])
         IN  RAdd(RMul(product, product),
                  VarianceOver(S \ {asset}, allocations, volatilities))

\* C13: the square of the portfolio volatility is the sum over the six asset
\* classes of weight^2 * volatility^2, with no covariance term, and the
\* estimated max drawdown is twice the volatility.
C13_VolatilityAndDrawdown ==
    RenderedPortfolio =>
        /\ SurdSign(response.outputs.portfolio_volatility) >= 0
        /\ REq(SurdSquare(response.outputs.portfolio_volatility),
               VarianceOver(Assets, response.request.allocations,
                            InitialVolatility))
        /\ SurdSign(response.outputs.max_drawdown)
              = SurdSign(response.outputs.portfolio_volatility)
        /\ REq(SurdSquare(response.outputs.max_drawdown),
               RMul(R(4), SurdSquare(response.outputs.portfolio_volatility)))

\* the moderate allocation: the variance is 0.0062925
C13_Witness ==
    /\ RenderedPortfolio
    /\ ModerateRequested
    /\ REq(SurdSquare(response.outputs.portfolio_volatility),
           Frac(62925, 10000000))
    /\ SurdGt(response.outputs.max_drawdown, Frac(15, 100))

RenderedSimple ==
    /\ Answered("update_simple_investment")
    /\ response.outputs.outcome = "rendered"

\* 0.154 * (cumulative interest - 20,000,000) above the threshold, else 0
TaxDue(total_interest) ==
    IF RGt(total_interest, R(20000000))
    THEN RMul(Frac(154, 1000), RSub(total_interest, R(20000000)))
    ELSE R(0)

\* C17: with the tax flag every year's tax is 0.154 * (cumulative interest -
\* 20,000,000) above 20,000,000 and 0 otherwise, the after-tax balance is
\* Ending Balance less the tax and the final value is the last after-tax
\* balance; without the flag the final value is the last Ending Balance.
C17_TaxAboveThreshold ==
    RenderedSimple =>
        LET df == response.outputs.df
            last == Len(response.outputs.df)
        IN  IF "tax" \in response.request.options
            THEN /\ Len(response.outputs.tax) = last
                 /\ Len(response.outputs.after_tax_balance) = last
                 /\ \A i \in 1 .. last :
                       /\ REq(response.outputs.tax[i],
                              TaxDue(df[i].TotalInterest))
                       /\ REq(response.outputs.after_tax_balance[i],
                              RSub(df[i].EndingBalance,
                                   response.outputs.tax[i]))
                 /\ REq(response.outputs.final_value,
                        response.outputs.after_tax_balance[last])
            ELSE REq(response.outputs.final_value, df[last].EndingBalance)

\* a year whose cumulative interest is above the threshold and is taxed
C17_Witness ==
    /\ RenderedSimple
    /\ "tax" \in response.request.options
    /\ RGt(response.outputs.total_interest, R(TaxThreshold))
    /\ RIsPos(response.outputs.tax[Len(response.outputs.tax)])
    /\ RLt(response.outputs.final_value,
           response.outputs.df[Len(response.outputs.df)].EndingBalance)

\* a loss: the cumulative interest is negative and the tax is 0
C17_WitnessLoss ==
    /\ RenderedSimple
    /\ "tax" \in response.request.options
    /\ RIsNeg(response.outputs.total_interest)
    /\ RIsZero(response.outputs.tax[Len(response.outputs.tax)])

\* what the callback answers to the request with the rebalancing selector at
\* 'none' and the lifecycle toggle off
WithoutSelectors ==
    portfolio_performance_outputs(
        response.request.allocations, InitialReturns, InitialVolatility,
        response.request.initial, response.request.monthly,
        response.request.years, "none", {})

\* C18: the outputs of update_portfolio_performance do not depend on the
\* rebalancing-period selector or on the lifecycle-investing toggle.
C18_SelectorsIgnored ==
    Answered("update_portfolio_performance") =>
        response.outputs = WithoutSelectors

\* a rendered answer to a request with yearly rebalancing and lifecycle
\* investing
C18_Witness ==
    /\ RenderedPortfolio
    /\ response.request.rebalancing = "yearly"
    /\ response.request.lifecycle = {"lifecycle"}
    /\ response.request.years = MaxYears
    /\ RIsPos(response.outputs.total_value)

\* the rate update_simple_investment passes to the ledger builder
RequestedRate ==
    IF "inflation" \in response.request.options
    THEN RSub(Frac(response.request.annual_return, 100), Frac(25, 1000))
    ELSE Frac(response.request.annual_return, 100)

\* the balance after `months` steps of
\* balance = balance * (1 + rate / 12) + monthly, from the requested principal
BalanceAfter(months) ==
    MonthLoop(R(response.request.initial * WonPerUnit),
              R(response.request.monthly * WonPerUnit),
              RequestedRate, months)

\* the Year fields of the rows are 1, 2, ..., horizon
YearsInOrder(rows, horizon) ==
    /\ Len(rows) = horizon
    /\ \A i \in 1 .. Len(rows) : rows[i].Year = i

\* C19: for a horizon >= 1 the ledger has exactly horizon records, of the
\* years 1, 2, ..., horizon in that order, the record of year y closing on
\* the balance after exactly 12 * y monthly steps; in the portfolio ledger
\* every asset of positive weight has exactly horizon records of the same
\* years.
C19_OneRecordPerYear ==
    /\ (Answered("update_simple_investment")
           /\ response.request.years >= 1) =>
          /\ response.outputs.outcome = "rendered"
          /\ YearsInOrder(response.outputs.df, response.request.years)
          /\ \A y \in 1 .. response.request.years :
                REq(response.outputs.df[y].EndingBalance,
                    BalanceAfter(MonthsPerYear * y))
    /\ (PortfolioAnswered
           /\ DOMAIN response.request.allocations # {}
           /\ response.request.years >= 1) =>
          \A asset \in PositiveAssets(response.request.allocations) :
              YearsInOrder(RowsOfAsset(LedgerOf(response.outputs), asset),
                           response.request.years)

\* a simple ledger of MaxYears years that grows
C19_Witness ==
    /\ RenderedSimple
    /\ response.request.years = MaxYears
    /\ Len(response.outputs.df) = MaxYears
    /\ response.outputs.df[MaxYears].Year = MaxYears
    /\ response.request.monthly > 0
    /\ response.request.annual_return > 0

\* a portfolio ledger of several assets over MaxYears years
C19_WitnessPortfolio ==
    /\ RenderedPortfolio
    /\ response.request.years = MaxYears
    /\ Cardinality(PositiveAssets(response.request.allocations)) >= 3
    /\ Len(response.outputs.portfolio_df)
          = MaxYears
            * Cardinality(PositiveAssets(response.request.allocations))

\* the return multiplier and the risk label of the three scenarios
ReturnMultiplier(button) ==
    CASE button = "bull" -> Frac(15, 10)
      [] button = "normal" -> R(1)
      [] button = "bear" -> Frac(3, 10)
RiskLabel(button) ==
    CASE button = "bull" -> "Moderate"
      [] button = "normal" -> "Normal"
      [] button = "bear" -> "High"

RenderedScenario ==
    /\ Answered("update_scenario_analysis")
    /\ response.request.button \in ScenarioButtons
    /\ response.outputs.outcome = "rendered"

\* the totals of the portfolio ledger when every return of DEFAULT_RETURNS is
\* multiplied by the scenario's return multiplier
MultipliedTotals ==
    portfolio_totals(
        response.request.allocations,
        [k \in DOMAIN InitialReturns |->
            RMul(InitialReturns[k],
                 ReturnMultiplier(response.request.button))],
        response.request.initial, response.request.monthly,
        response.request.years)

\* C16: the volatility multiplier of a scenario gives the risk label only
\* (bull Moderate, normal Normal, bear High); the final value, the total
\* invested and the total return are those of the portfolio under the
\* returns multiplied by 1.5, 1.0 and 0.3.
C16_VolatilityMultiplierLabelsOnly ==
    RenderedScenario =>
        /\ response.outputs.risk_level = RiskLabel(response.request.button)
        /\ REq(response.outputs.total_value, MultipliedTotals.total_value)
        /\ REq(response.outputs.total_invested,
               MultipliedTotals.total_invested)
        /\ response.outputs.total_return
              = Roi(MultipliedTotals.total_value,
                    MultipliedTotals.total_invested)

\* the bear scenario on several assets over MaxYears years
C16_Witness ==
    /\ RenderedScenario
    /\ response.request.button = "bear"
    /\ response.outputs.risk_level = "High"
    /\ Cardinality(AssetsIn(response.outputs.portfolio_df)) >= 3
    /\ response.request.years = MaxYears
    /\ response.request.monthly > 0

\* what update_scenario_analysis answers for the button on the inputs of the
\* answered request: the answer itself for the button that was clicked
ScenarioFor(button) ==
    IF button = response.request.button THEN response.outputs
    ELSE scenario_analysis_outputs(
             button, response.request.allocations, DEFAULT_RETURNS,
             response.request.initial, response.request.monthly,
             response.request.years)

\* the three answers are rendered, the final values are in the order bear,
\* normal, bull and the total invested is one number
ScenariosOrdered(bear, normal, bull) ==
    /\ bear.outcome = "rendered"
    /\ normal.outcome = "rendered"
    /\ bull.outcome = "rendered"
    /\ RLe(bear.total_value, normal.total_value)
    /\ RLe(normal.total_value, bull.total_value)
    /\ REq(bear.total_invested, normal.total_invested)
    /\ REq(normal.total_invested, bull.total_invested)

\* the inputs of the answered scenario request are in the range C22 names
ScenarioInputsValid ==
    /\ Answered("update_scenario_analysis")
    /\ response.request.button \in ScenarioButtons
    /\ DOMAIN response.request.allocations = Assets
    /\ \A asset \in Assets :
          ~RIsNeg(response.request.allocations[asset])
    /\ PositiveAssets(response.request.allocations) # {}
    /\ response.request.initial >= 0
    /\ response.request.monthly >= 0
    /\ response.request.years >= 1

\* C22: for an allocation of non-negative weights with a positive one, a
\* principal >= 0, a monthly contribution >= 0 and a horizon >= 1, the final
\* portfolio value of update_scenario_analysis is ordered bear <= normal <=
\* bull and the total invested is the same in the three scenarios.
C22_ScenariosOrdered ==
    ScenarioInputsValid =>
        \A bear \in {ScenarioFor("bear")} :
            \A normal \in {ScenarioFor("normal")} :
                \A bull \in {ScenarioFor("bull")} :
                    ScenariosOrdered(bear, normal, bull)

\* the bull scenario of a growing portfolio of several assets
C22_Witness ==
    /\ ScenarioInputsValid
    /\ response.request.button = "bull"
    /\ response.outputs.outcome = "rendered"
    /\ Cardinality(PositiveAssets(response.request.allocations)) >= 3
    /\ response.request.years = MaxYears
    /\ response.request.initial > 0
    /\ response.request.monthly > 0
    /\ RGt(response.outputs.total_value, response.outputs.total_invested)

\* nothing invested: the three final values are the same, zero
C22_WitnessNothing ==
    /\ ScenarioInputsValid
    /\ response.request.initial = 0
    /\ response.request.monthly = 0
    /\ response.outputs.outcome = "rendered"
    /\ RIsZero(response.outputs.total_value)

\* ------------------------------------------------------------------------
\* Properties of the return, risk and advice block
\* ------------------------------------------------------------------------
BlockReturned == block.status = "returned"

\* the denominator of the rational is not 0
Finite(q) == q.d # <<>>

\* C14: the Sharpe ratio is 0 whenever the portfolio volatility is 0 and
\* (weighted return - 0.03) / volatility otherwise; nothing is divided by 0.
C14_SharpeGuarded ==
    BlockReturned =>
        /\ Finite(block.risk.sharpe_ratio.coef)
        /\ Finite(block.risk.sharpe_ratio.radicand)
        /\ SurdIsZero(block.risk.portfolio_volatility) =>
              SurdIsZero(block.risk.sharpe_ratio)
        /\ ~SurdIsZero(block.risk.portfolio_volatility) =>
              \* sharpe * volatility = weighted return - 0.03
              /\ SurdSign(block.risk.sharpe_ratio)
                    * SurdSign(block.risk.portfolio_volatility)
                 = RSign(RSub(block.risk.weighted_return, Frac(3, 100)))
              /\ REq(RMul(SurdSquare(block.risk.sharpe_ratio),
                          SurdSquare(block.risk.portfolio_volatility)),
                     PyPow(RSub(block.risk.weighted_return, Frac(3, 100)),
                           2))

\* six weights of 0: the volatility is 0 and the Sharpe ratio is 0
C14_Witness ==
    /\ BlockReturned
    /\ block.given.status = "allocation given"
    /\ SurdIsZero(block.risk.portfolio_volatility)
    /\ SurdIsZero(block.risk.sharpe_ratio)
    /\ RIsZero(block.risk.weighted_return)

\* a volatility above 0 and a Sharpe ratio that is not 0
C14_WitnessDivided ==
    /\ BlockReturned
    /\ block.given.status = "allocation given"
    /\ SurdGt(block.risk.portfolio_volatility, R(0))
    /\ SurdGt(block.risk.sharpe_ratio, R(0))

Advised(text) ==
    \E i \in 1 .. Len(block.risk.portfolio_advice) :
        block.risk.portfolio_advice[i] = text

\* C15: each of the three axes emits at most one advisory, by the bands
\* volatility > 0.20 / < 0.10, Sharpe < 0.5 / > 1.0, equity > 0.7 / < 0.3,
\* and none exactly in the closed middle intervals; the list is the
\* function of the three numbers.
C15_AdviceByBands ==
    BlockReturned =>
        /\ Advised(HighVolatility)
              = SurdGt(block.risk.portfolio_volatility, Frac(20, 100))
        /\ Advised(LowVolatility)
              = SurdLt(block.risk.portfolio_volatility, Frac(10, 100))
        /\ Advised(PoorSharpe)
              = SurdLt(block.risk.sharpe_ratio, Frac(5, 10))
        /\ Advised(ExcellentSharpe)
              = SurdGt(block.risk.sharpe_ratio, R(1))
        /\ Advised(AggressiveEquity)
              = RGt(block.risk.total_equity, Frac(7, 10))
        /\ Advised(ConservativeEquity)
              = RLt(block.risk.total_equity, Frac(3, 10))
        /\ ~(Advised(HighVolatility) /\ Advised(LowVolatility))
        /\ ~(Advised(PoorSharpe) /\ Advised(ExcellentSharpe))
        /\ ~(Advised(AggressiveEquity) /\ Advised(ConservativeEquity))
        /\ Len(block.risk.portfolio_advice)
              = Cardinality({block.risk.portfolio_advice[i] :
                                i \in 1 .. Len(block.risk.portfolio_advice)})
        /\ Len(block.risk.portfolio_advice) <= 3
        /\ block.risk.portfolio_advice
              = portfolio_advice(block.risk.portfolio_volatility,
                                 block.risk.sharpe_ratio,
                                 block.risk.total_equity)

\* volatility 0.20, Sharpe ratio 0.5 and equity 0.7, each on the edge of its
\* middle interval: no advisory
C15_Witness ==
    /\ BlockReturned
    /\ SurdCmp(block.risk.portfolio_volatility, Frac(20, 100)) = 0
    /\ SurdCmp(block.risk.sharpe_ratio, Frac(5, 10)) = 0
    /\ REq(block.risk.total_equity, Frac(7, 10))
    /\ block.risk.portfolio_advice = <<>>

\* one advisory on each axis
C15_WitnessThree ==
    /\ BlockReturned
    /\ Advised(LowVolatility)
    /\ Advised(ExcellentSharpe)
    /\ Advised(ConservativeEquity)

\* ------------------------------------------------------------------------
\* Properties of the threaded server
\* ------------------------------------------------------------------------
\* what the callback answers to the request when no other request is there:
\* the atomic callback on the dictionaries as the module defines them
RunAlone(req) ==
    CASE req.callback = "update_simple_investment" ->
            simple_investment_outputs(
                req.initial, req.monthly, req.annual_return, req.years,
                req.options, req.compound_freq)
      [] req.callback = "update_portfolio_performance" ->
            portfolio_performance_outputs(
                req.allocations, InitialReturns, InitialVolatility,
                req.initial, req.monthly,
                req.years, req.rebalancing, req.lifecycle)
      [] req.callback = "update_scenario_analysis" ->
            scenario_analysis_outputs(
                req.button, req.allocations, InitialReturns, req.initial,
                req.monthly, req.years)

Returned(t) == in_flight[t].pc = "returned"

\* C10: under every interleaving of simple, portfolio and scenario requests,
\* failing ones included, DEFAULT_RETURNS, ASSET_VOLATILITY and
\* RISK_PROFILES keep their initial values and every request returns what
\* it returns when run alone.
C10_TablesReadOnlyRequestsIsolated ==
    /\ DEFAULT_RETURNS = InitialReturns
    /\ ASSET_VOLATILITY = InitialVolatility
    /\ RISK_PROFILES = InitialRiskProfiles
    /\ \A t \in Threads :
          Returned(t) => in_flight[t].outputs = RunAlone(in_flight[t].request)

\* a portfolio request that was calculated while the other thread held the
\* adjusted returns of a bull scenario
C10_Witness ==
    \E t \in Threads : \E u \in Threads \ {t} :
        /\ Returned(t)
        /\ in_flight[t].request.callback = "update_portfolio_performance"
        /\ in_flight[t].outputs.outcome = "rendered"
        /\ in_flight[t].overlapped
        /\ in_flight[u].pc = "bound"
        /\ in_flight[u].request.callback = "update_scenario_analysis"
        /\ in_flight[u].request.button = "bull"
        /\ in_flight[u].returns # DEFAULT_RETURNS

\* a scenario answered after a simple request has raised on another thread
C10_WitnessFailed ==
    \E t \in Threads : \E u \in Threads \ {t} :
        /\ Returned(t)
        /\ in_flight[t].request.callback = "update_simple_investment"
        /\ in_flight[t].outputs.outcome = "exception"
        /\ Returned(u)
        /\ in_flight[u].request.callback = "update_scenario_analysis"
        /\ in_flight[u].outputs.outcome = "rendered"
        /\ in_flight[u].overlapped

\* ------------------------------------------------------------------------
\* Properties of the allocation panel (SpecProfile)
\* ------------------------------------------------------------------------
\* every request is answered and no slider was dragged since the last
\* selection of a risk profile
SettledByProfile == pending = <<>> /\ panel.last_input # "slider"

\* the RISK_PROFILES entry the sliders are set from: custom shows the
\* moderate weights
ProfileShown ==
    IF panel.risk_profile = "custom" THEN "moderate" ELSE panel.risk_profile

SliderTotal ==
    panel.sliders["stocks_kr"] + panel.sliders["stocks_global"]
        + panel.sliders["reits"] + panel.sliders["bonds"]
        + panel.sliders["deposits"] + panel.sliders["crypto"]

\* C21: once the callbacks that follow a selection of a risk profile have
\* answered, the six sliders sum to exactly 100, the allocation message is
\* the 100% confirmation, the stored weights are the RISK_PROFILES weights
\* of the selected profile (the moderate ones for custom) and the sliders
\* are enabled exactly when the profile is custom.
C21_ProfileSetsAllocation ==
    SettledByProfile =>
        /\ SliderTotal = 100
        /\ panel.warning = "100%"
        /\ panel.labels = panel.sliders
        /\ DOMAIN store = Assets
        /\ \A asset \in Assets :
              /\ REq(store[asset], RISK_PROFILES[ProfileShown][asset])
              /\ panel.disabled[asset] = (panel.risk_profile # "custom")

\* the aggressive preset selected and its callbacks answered
C21_Witness ==
    /\ SettledByProfile
    /\ panel.risk_profile = "aggressive"
    /\ panel.last_input = "risk-profile"
    /\ panel.sliders["crypto"] = 5

\* custom selected after a preset: the moderate weights, enabled
C21_WitnessCustom ==
    /\ SettledByProfile
    /\ panel.risk_profile = "custom"
    /\ ~panel.disabled["stocks_kr"]
    /\ panel.sliders["stocks_kr"] = 35

\* the sliders after a drag in custom mode: the message is the warning
C21_WitnessDragged ==
    /\ pending = <<>>
    /\ panel.last_input = "slider"
    /\ panel.warning = "should be 100%"
    /\ SliderTotal # 100
====
